---- MODULE Spec2Model ----
(***************************************************************************)
(* Model of src/assistants/migrate.py: main(), AssistantMigrator.__init__  *)
(* and the sequential migration loop migrate_all_assistants with the       *)
(* helpers it calls.  The two remote services and the temporary directory  *)
(* are the environment: every remote call either answers or raises, and    *)
(* the answers are drawn from small sets.                                  *)
(***************************************************************************)
EXTENDS Integers, Sequences, FiniteSets, TLC

\* ---------------------------------------------------------------- bounds
MaxAssistants == 2      \* most assistants in the source listing
MaxFiles == 2           \* most files attached to one assistant
MaxDeployments == 2     \* most deployments the destination lists
MaxPageItems == 1       \* most items the source service puts in one page

\* limit=100 of beta.assistants.list
ListLimit == 100

\* ---------------------------------------------------------------- values
\* Strings are tuples of one-character strings, so that `in` on strings
\* (substring test) and f-string formatting are computed, not assumed.
None == <<"None">>
EmptyStr == <<>>

Gpt4Marker == <<"g", "p", "t", "-", "4">>
Gpt4 == <<"g", "p", "t", "-", "4">>
Gpt4Turbo == <<"g", "p", "t", "-", "4", "-", "t", "u", "r", "b", "o">>
Gpt35 == <<"g", "p", "t", "-", "3", ".", "5">>
Gpt5Preview == <<"g", "p", "t", "-", "5", "-", "p", "r", "e", "v", "i", "e", "w">>
XModel == <<"x">>

DeploymentPool == {Gpt4, Gpt4Turbo, Gpt35, XModel}
SourceModels == {Gpt35, Gpt5Preview}

KeyValue == <<"k">>
EnvValues == {None, EmptyStr, KeyValue}

SharedName == <<"a", ".", "t", "x", "t">>
MetaFilenames == {None, EmptyStr, SharedName}

Digits == <<"1", "2", "3", "4", "5", "6", "7", "8", "9">>

Min(a, b) == IF a <= b THEN a ELSE b

\* Python truthiness of an optional string / id
Truthy(x) == x # None /\ x # EmptyStr

\* Python `a or b`
PyOr(a, b) == IF Truthy(a) THEN a ELSE b

\* Python `sub in s` on strings
Contains(sub, s) ==
    \E i \in 1..(Len(s) - Len(sub) + 1) : SubSeq(s, i, i + Len(sub) - 1) = sub

\* Python `x in list`
InList(x, l) == \E i \in DOMAIN l : l[i] = x

\* sequences of distinct elements of S, of length at most n
DistinctSeqs(S, n) ==
    UNION { { q \in [1..k -> S] : \A i, j \in 1..k : i # j => q[i] # q[j] } : k \in 0..n }

\* the file lists an assistant may carry: distinct ids, listed in ascending order
FileIds == 1..MaxFiles
FileIdLists ==
    { q \in DistinctSeqs(FileIds, MaxFiles) : \A i, j \in DOMAIN q : i < j => q[i] < q[j] }
DeploymentLists == DistinctSeqs(DeploymentPool, MaxDeployments)

\* the source file id as text, "f<n>"
FileIdStr(f) == <<"f", Digits[f]>>

\* the bytes the source service holds for a file: distinct files, distinct bytes
Content(f) == <<"bytes", Digits[f]>>

VARIABLES
    pc,                 \* position of the single thread of control
    env,                \* the three required environment entries
    exit_code,          \* None while running, then the exit status
    openai_ok,          \* outcome of the source connection check
    azure_ok,           \* outcome of the destination connection check
    source,             \* the source service's listing: distinct assistant ids
    fetched,            \* items of the listing delivered in pages so far
    pos,                \* items the cursor has yielded to the loop
    assistant,          \* loop variable: the current source assistant id
    asst,               \* get_assistant_details: the retrieved record
    file_details,       \* get_assistant_details: the list being built
    details,            \* migrate_all_assistants: result of get_assistant_details
    fs,                 \* temporary directory: path -> bytes
    ui,                 \* create_azure_assistant: files handled by the upload loop
    azure_file_ids,     \* create_azure_assistant: uploaded destination file ids
    deployment_ids,     \* create_azure_assistant: ids of the listed deployments
    target_model,       \* create_azure_assistant: the resolved model
    azure_assistant_id, \* migrate_all_assistants: result of create_azure_assistant
    migration_map,      \* migrate_all_assistants: source id -> destination id
    returned,           \* main: migration_results once migrate_all_assistants returned
    \* ------------------------------------------------- observation only
    ops,                \* TRUE once any migration operation was performed
    issued,             \* <<s, d>>: a create call made for s answered with id d
    detailFailed,       \* source ids whose get_assistant_details returned {}
    createFailed,       \* source ids whose create_azure_assistant returned None
    downloads,          \* current assistant: file ids downloaded, in order
    uploads,            \* current assistant: <<k, bytes>> uploaded, in order
    createCall,         \* current assistant: arguments of the create call
    delays              \* sleeps since the current assistant's processing started

vars == <<pc, env, exit_code, openai_ok, azure_ok, source, fetched, pos,
          assistant, asst, file_details, details, fs, ui, azure_file_ids,
          deployment_ids, target_model, azure_assistant_id, migration_map,
          returned, ops, issued, detailFailed, createFailed,
          downloads, uploads, createCall, delays>>

ctl == <<env, openai_ok, azure_ok>>
cursorVars == <<source, fetched, pos, assistant>>
detailVars == <<asst, file_details, details>>
createVars == <<ui, azure_file_ids, deployment_ids, target_model, azure_assistant_id>>
failVars == <<detailFailed, createFailed>>
obsVars == <<downloads, uploads, createCall>>

\* ---------------------------------------------------------------- helpers
NoAssistant == [id |-> 0, model |-> None, file_ids |-> <<>>]

\* the dict returned by get_assistant_details; size = number of keys
EmptyDict == [size |-> 0, id |-> 0, model |-> None, file_details |-> <<>>]
DetailsDict(a, fd) == [size |-> 6, id |-> a.id, model |-> a.model, file_details |-> fd]

\* `if not details`
NotDetails(d) == d.size = 0

\* except Exception: return {}
PartialDict == [size |-> 1, id |-> 0, model |-> None, file_details |-> <<>>]
FailedDetails == EmptyDict

NoCall == [issued |-> FALSE, model |-> None, file_ids |-> <<>>]

\* all([openai_api_key, azure_api_key, azure_endpoint])
AnyPresent(e) ==
    Truthy(e.OPENAI_API_KEY) \/ Truthy(e.AZURE_OPENAI_API_KEY) \/ Truthy(e.AZURE_OPENAI_ENDPOINT)
AllPresent(e) ==
    Truthy(e.OPENAI_API_KEY) /\ Truthy(e.AZURE_OPENAI_API_KEY) /\ Truthy(e.AZURE_OPENAI_ENDPOINT)

\* the page the source service answers with: the items after `after`
PageLen(after, n) == Min(Min(ListLimit, MaxPageItems), n - after)

\* for assistant in cursor: the cursor moves to the next item
StayOnItem(p) == p
NextItem(p) == p + 1

\* for file_id in assistant.file_ids
AllAccountFiles(a) == [i \in 1..MaxFiles |-> i]
AttachedFiles(a) == a.file_ids

\* filename = meta.filename or f"{file_id}.bin"
LocalFilename(meta_filename, f) == PyOr(meta_filename, FileIdStr(f) \o <<".", "b", "i", "n">>)

\* os.path.join(tempfile.gettempdir(), filename)
FilePath(filename) == <<"/", "t", "m", "p", "/">> \o filename

\* open(file_path, "wb").write(file_bytes)
WriteFile(f, path, bytes) ==
    [p \in DOMAIN f \cup {path} |-> IF p = path THEN bytes ELSE f[p]]

\* the fall-back of create_azure_assistant: the model passed to create, or None
FirstGpt4(ids) ==
    IF \E i \in DOMAIN ids : Contains(Gpt4Marker, ids[i])
    THEN ids[CHOOSE i \in DOMAIN ids :
                /\ Contains(Gpt4Marker, ids[i])
                /\ \A j \in 1..(i - 1) : ~Contains(Gpt4Marker, ids[j])]
    ELSE None
ResolveGpt4First(requested, ids) ==
    PyOr(FirstGpt4(ids), IF ids # <<>> THEN ids[1] ELSE None)
ResolveModel(requested, ids) ==
    IF ~InList(requested, ids)
    THEN PyOr(FirstGpt4(ids), IF ids # <<>> THEN ids[1] ELSE None)
    ELSE requested

\* migration_map[assistant.id] = azure_assistant_id
MapPutFresh(m, s, d) == [x \in {s} |-> d]
MapPut(m, s, d) == [x \in DOMAIN m \cup {s} |-> IF x = s THEN d ELSE m[x]]

\* ids the destination service hands out: never reused
NewAssistantId == <<"asst", Cardinality(issued) + 1>>
NewFileId(s, k) == <<"file", s, k>>

\* ---------------------------------------------------------------- Init
Init ==
    /\ pc = "main"
    /\ env \in [OPENAI_API_KEY : EnvValues, AZURE_OPENAI_API_KEY : EnvValues,
                AZURE_OPENAI_ENDPOINT : EnvValues]
    /\ exit_code = None
    /\ openai_ok = "unchecked"
    /\ azure_ok = "unchecked"
    /\ \E n \in 0..MaxAssistants : source = [i \in 1..n |-> i]
    /\ fetched = 0
    /\ pos = 0
    /\ assistant = 0
    /\ asst = NoAssistant
    /\ file_details = <<>>
    /\ details = EmptyDict
    /\ fs = <<>>
    /\ ui = 0
    /\ azure_file_ids = <<>>
    /\ deployment_ids = <<>>
    /\ target_model = None
    /\ azure_assistant_id = None
    /\ migration_map = <<>>
    /\ returned = FALSE
    /\ ops = FALSE
    /\ issued = {}
    /\ detailFailed = {}
    /\ createFailed = {}
    /\ downloads = <<>>
    /\ uploads = <<>>
    /\ createCall = NoCall
    /\ delays = 0

\* ---------------------------------------------------------------- main, __init__
Exit(code) ==
    /\ pc' = "exited"
    /\ exit_code' = code

\* main: a required environment entry is missing -> sys.exit(1)
main_env_missing ==
    /\ pc = "main"
    /\ ~AllPresent(env)
    /\ Exit(1)
    /\ UNCHANGED <<ctl, cursorVars, detailVars, fs, createVars, migration_map,
                   returned, ops, issued, failVars, obsVars, delays>>

\* main: all three present -> construct the migrator
main_env_ok ==
    /\ pc = "main"
    /\ AllPresent(env)
    /\ pc' = "init_openai"
    /\ UNCHANGED <<ctl, exit_code, cursorVars, detailVars, fs, createVars,
                   migration_map, returned, ops, issued, failVars, obsVars, delays>>

\* __init__: self.openai_client.models.list() answers
init_openai_ok ==
    /\ pc = "init_openai"
    /\ openai_ok' = "ok"
    /\ pc' = "init_azure"
    /\ UNCHANGED <<env, azure_ok, exit_code, cursorVars, detailVars, fs, createVars,
                   migration_map, returned, ops, issued, failVars, obsVars, delays>>

\* __init__: self.openai_client.models.list() raises -> sys.exit(1)
init_openai_fail ==
    /\ pc = "init_openai"
    /\ openai_ok' = "failed"
    /\ Exit(1)
    /\ UNCHANGED <<env, azure_ok, cursorVars, detailVars, fs, createVars,
                   migration_map, returned, ops, issued, failVars, obsVars, delays>>

\* __init__: self.azure_client.models.list() answers
init_azure_ok ==
    /\ pc = "init_azure"
    /\ azure_ok' = "ok"
    /\ pc' = "list"
    /\ UNCHANGED <<env, openai_ok, exit_code, cursorVars, detailVars, fs, createVars,
                   migration_map, returned, ops, issued, failVars, obsVars, delays>>

\* __init__: self.azure_client.models.list() raises -> sys.exit(1)
init_azure_fail ==
    /\ pc = "init_azure"
    /\ azure_ok' = "failed"
    /\ Exit(1)
    /\ UNCHANGED <<env, openai_ok, cursorVars, detailVars, fs, createVars,
                   migration_map, returned, ops, issued, failVars, obsVars, delays>>

\* ---------------------------------------------------------------- the cursor
\* an exception nothing catches: the interpreter prints the traceback, status 1
Uncaught == Exit(1)

\* migrate_all_assistants: migration_map = {}; the listing's first page arrives
list_first_page_ok ==
    /\ pc = "list"
    /\ migration_map' = <<>>
    /\ fetched' = PageLen(0, Len(source))
    /\ ops' = TRUE
    /\ pc' = "loop"
    /\ UNCHANGED <<ctl, exit_code, source, pos, assistant, detailVars, fs, createVars,
                   returned, issued, failVars, obsVars, delays>>

\* migrate_all_assistants: the listing call raises; no handler encloses it
list_first_page_fail ==
    /\ pc = "list"
    /\ ops' = TRUE
    /\ Uncaught
    /\ UNCHANGED <<ctl, cursorVars, detailVars, fs, createVars, migration_map,
                   returned, issued, failVars, obsVars, delays>>

\* for assistant in cursor: the next item of the current page
loop_next ==
    /\ pc = "loop"
    /\ pos < fetched
    /\ assistant' = source[pos + 1]
    /\ pos' = NextItem(pos)
    /\ delays' = 0
    /\ pc' = "retrieve"
    /\ UNCHANGED <<ctl, exit_code, source, fetched, detailVars, fs, createVars,
                   migration_map, returned, ops, issued, failVars, obsVars>>

\* for assistant in cursor: the page is used up, the next page arrives
loop_next_page_ok ==
    /\ pc = "loop"
    /\ pos >= fetched
    /\ fetched < Len(source)
    /\ fetched' = fetched + PageLen(fetched, Len(source))
    /\ ops' = TRUE
    /\ UNCHANGED <<pc, ctl, exit_code, source, pos, assistant, detailVars, fs,
                   createVars, migration_map, returned, issued, failVars, obsVars,
                   delays>>

\* for assistant in cursor: fetching the next page raises; no handler encloses it
loop_next_page_fail ==
    /\ pc = "loop"
    /\ pos >= fetched
    /\ fetched < Len(source)
    /\ ops' = TRUE
    /\ Uncaught
    /\ UNCHANGED <<ctl, cursorVars, detailVars, fs, createVars, migration_map,
                   returned, issued, failVars, obsVars, delays>>

\* the cursor is exhausted: return migration_map
loop_end ==
    /\ pc = "loop"
    /\ pos >= fetched
    /\ fetched >= Len(source)
    /\ returned' = TRUE
    /\ pc' = "summary"
    /\ UNCHANGED <<ctl, exit_code, cursorVars, detailVars, fs, createVars,
                   migration_map, ops, issued, failVars, obsVars, delays>>

\* main: the summary is logged and the process ends normally
main_summary ==
    /\ pc = "summary"
    /\ Exit(0)
    /\ UNCHANGED <<ctl, cursorVars, detailVars, fs, createVars, migration_map,
                   returned, ops, issued, failVars, obsVars, delays>>

\* ---------------------------------------------------------------- get_assistant_details
\* get_assistant_details returns d to the loop: `if not details: continue`,
\* else create_azure_assistant starts with azure_file_ids = []
DetailsReturn(d) ==
    /\ details' = d
    /\ file_details' = <<>>
    /\ IF NotDetails(d)
       THEN /\ pc' = "loop"
            /\ asst' = NoAssistant
            /\ downloads' = <<>>
            /\ UNCHANGED <<ui, azure_file_ids>>
       ELSE /\ pc' = "upload"
            /\ ui' = 0
            /\ azure_file_ids' = <<>>
            /\ UNCHANGED <<asst, downloads>>

\* beta.assistants.retrieve answers
retrieve_ok ==
    /\ pc = "retrieve"
    /\ \E fids \in FileIdLists, m \in SourceModels :
          asst' = [id |-> assistant, model |-> m, file_ids |-> fids]
    /\ file_details' = <<>>
    /\ ops' = TRUE
    /\ pc' = "download"
    /\ UNCHANGED <<ctl, exit_code, cursorVars, details, fs, createVars, migration_map,
                   returned, issued, failVars, obsVars, delays>>

\* beta.assistants.retrieve raises -> return {}
retrieve_fail ==
    /\ pc = "retrieve"
    /\ ops' = TRUE
    /\ detailFailed' = detailFailed \cup {assistant}
    /\ DetailsReturn(FailedDetails)
    /\ UNCHANGED <<ctl, exit_code, cursorVars, fs, deployment_ids, target_model,
                   azure_assistant_id, migration_map, returned, issued, createFailed, uploads, createCall, delays>>

\* _download_file: bytes read, metadata read, file written, path returned
download_ok ==
    /\ pc = "download"
    /\ Len(file_details) < Len(AttachedFiles(asst))
    /\ LET f == AttachedFiles(asst)[Len(file_details) + 1]
       IN \E meta_filename \in MetaFilenames :
            LET file_path == FilePath(LocalFilename(meta_filename, f))
            IN /\ fs' = WriteFile(fs, file_path, Content(f))
               /\ file_details' = Append(file_details, [id |-> f, path |-> file_path])
               /\ downloads' = Append(downloads, f)
    /\ ops' = TRUE
    /\ UNCHANGED <<pc, ctl, exit_code, cursorVars, asst, details, createVars,
                   migration_map, returned, issued, failVars, uploads, createCall,
                   delays>>

\* _download_file raises (files.content, files.retrieve or the write) -> return {}
download_fail ==
    /\ pc = "download"
    /\ Len(file_details) < Len(AttachedFiles(asst))
    /\ ops' = TRUE
    /\ detailFailed' = detailFailed \cup {assistant}
    /\ DetailsReturn(FailedDetails)
    /\ UNCHANGED <<ctl, exit_code, cursorVars, fs, deployment_ids, target_model,
                   azure_assistant_id, migration_map, returned, issued, createFailed, uploads, createCall, delays>>

\* get_assistant_details: every attached file is downloaded -> return the dict
details_return ==
    /\ pc = "download"
    /\ Len(file_details) >= Len(AttachedFiles(asst))
    /\ DetailsReturn(DetailsDict(asst, file_details))
    /\ UNCHANGED <<ctl, exit_code, cursorVars, fs, deployment_ids, target_model,
                   azure_assistant_id, migration_map, returned, ops, issued, failVars,
                   uploads, createCall, delays>>

\* ---------------------------------------------------------------- create_azure_assistant
\* _upload_file_to_azure: the file is read and files.create answers
upload_ok ==
    /\ pc = "upload"
    /\ ui < Len(details.file_details)
    /\ LET file_detail == details.file_details[ui + 1]
       IN /\ file_detail.path \in DOMAIN fs
          /\ uploads' = Append(uploads, <<ui + 1, fs[file_detail.path]>>)
          /\ azure_file_ids' = Append(azure_file_ids, NewFileId(assistant, ui + 1))
    /\ ui' = ui + 1
    /\ ops' = TRUE
    /\ UNCHANGED <<pc, ctl, exit_code, cursorVars, detailVars, fs, deployment_ids,
                   target_model, azure_assistant_id, migration_map, returned, issued,
                   failVars, downloads, createCall, delays>>

\* _upload_file_to_azure: files.create raises -> return None; the file is skipped
upload_fail ==
    /\ pc = "upload"
    /\ ui < Len(details.file_details)
    /\ ui' = ui + 1
    /\ ops' = TRUE
    /\ UNCHANGED <<pc, ctl, exit_code, cursorVars, detailVars, fs, azure_file_ids,
                   deployment_ids, target_model, azure_assistant_id, migration_map,
                   returned, issued, failVars, obsVars, delays>>

\* create_azure_assistant returns None
CreateReturnsNone ==
    /\ azure_assistant_id' = None
    /\ createFailed' = createFailed \cup {assistant}
    /\ pc' = "ret"

\* models.list answers and a model is resolved
models_list_resolved ==
    /\ pc = "upload"
    /\ ui >= Len(details.file_details)
    /\ \E ids \in DeploymentLists :
          /\ Truthy(ResolveModel(details.model, ids))
          /\ deployment_ids' = ids
          /\ target_model' = ResolveModel(details.model, ids)
    /\ pc' = "create_call"
    /\ UNCHANGED <<ctl, exit_code, cursorVars, detailVars, fs, ui, azure_file_ids,
                   azure_assistant_id, migration_map, returned, ops, issued, failVars,
                   obsVars, delays>>

\* models.list answers and no model is resolved -> return None
models_list_no_model ==
    /\ pc = "upload"
    /\ ui >= Len(details.file_details)
    /\ \E ids \in DeploymentLists :
          /\ ~Truthy(ResolveModel(details.model, ids))
          /\ deployment_ids' = ids
          /\ target_model' = ResolveModel(details.model, ids)
    /\ CreateReturnsNone
    /\ UNCHANGED <<ctl, exit_code, cursorVars, detailVars, fs, ui, azure_file_ids,
                   migration_map, returned, ops, issued, detailFailed,
                   obsVars, delays>>

\* models.list raises -> return None
models_list_fail ==
    /\ pc = "upload"
    /\ ui >= Len(details.file_details)
    /\ CreateReturnsNone
    /\ UNCHANGED <<ctl, exit_code, cursorVars, detailVars, fs, ui, azure_file_ids,
                   deployment_ids, target_model, migration_map, returned, ops, issued,
                   detailFailed, obsVars, delays>>

\* the arguments of beta.assistants.create
CreateArgs == [issued |-> TRUE, model |-> target_model, file_ids |-> azure_file_ids]

\* beta.assistants.create answers with a new id
create_ok ==
    /\ pc = "create_call"
    /\ createCall' = CreateArgs
    /\ azure_assistant_id' = NewAssistantId
    /\ issued' = issued \cup {<<assistant, NewAssistantId>>}
    /\ ops' = TRUE
    /\ pc' = "ret"
    /\ UNCHANGED <<ctl, exit_code, cursorVars, detailVars, fs, ui, azure_file_ids,
                   deployment_ids, target_model, migration_map, returned, failVars,
                   downloads, uploads, delays>>

\* beta.assistants.create raises -> return None
create_fail ==
    /\ pc = "create_call"
    /\ createCall' = CreateArgs
    /\ ops' = TRUE
    /\ CreateReturnsNone
    /\ UNCHANGED <<ctl, exit_code, cursorVars, detailVars, fs, ui, azure_file_ids,
                   deployment_ids, target_model, migration_map, returned, issued,
                   detailFailed, downloads, uploads, delays>>

\* ---------------------------------------------------------------- the loop body's tail
\* the locals of the finished calls go out of scope
LocalsDropped ==
    /\ asst' = NoAssistant
    /\ details' = EmptyDict
    /\ ui' = 0
    /\ azure_file_ids' = <<>>
    /\ deployment_ids' = <<>>
    /\ target_model' = None
    /\ azure_assistant_id' = None
    /\ downloads' = <<>>
    /\ uploads' = <<>>
    /\ createCall' = NoCall

\* if azure_assistant_id: migration_map[assistant.id] = azure_assistant_id
migrate_success ==
    /\ pc = "ret"
    /\ Truthy(azure_assistant_id)
    /\ migration_map' = MapPut(migration_map, assistant, azure_assistant_id)
    /\ LocalsDropped
    /\ pc' = "sleep"
    /\ UNCHANGED <<ctl, exit_code, cursorVars, file_details, fs, returned, ops,
                   issued, failVars, delays>>

\* else: logger.error("Failed to migrate assistant ...")
migrate_failure ==
    /\ pc = "ret"
    /\ ~Truthy(azure_assistant_id)
    /\ LocalsDropped
    /\ pc' = "sleep"
    /\ UNCHANGED <<ctl, exit_code, cursorVars, file_details, fs, migration_map,
                   returned, ops, issued, failVars, delays>>

\* time.sleep(1)
sleep ==
    /\ pc = "sleep"
    /\ delays' = delays + 1
    /\ pc' = "loop"
    /\ UNCHANGED <<ctl, exit_code, cursorVars, detailVars, fs, createVars,
                   migration_map, returned, ops, issued, failVars, obsVars>>

Next ==
    \/ main_env_missing
    \/ main_env_ok
    \/ init_openai_ok
    \/ init_openai_fail
    \/ init_azure_ok
    \/ init_azure_fail
    \/ list_first_page_ok
    \/ list_first_page_fail
    \/ loop_next
    \/ loop_next_page_ok
    \/ loop_next_page_fail
    \/ loop_end
    \/ main_summary
    \/ retrieve_ok
    \/ retrieve_fail
    \/ download_ok
    \/ download_fail
    \/ details_return
    \/ upload_ok
    \/ upload_fail
    \/ models_list_resolved
    \/ models_list_no_model
    \/ models_list_fail
    \/ create_ok
    \/ create_fail
    \/ migrate_success
    \/ migrate_failure
    \/ sleep

Spec == Init /\ [][Next]_vars

\* ================================================================ properties

\* ---------------------------------------------------------------- C1
\* C1 as stated: when migrate_all_assistants returns, the mapping has exactly
\* N - M entries, N the length of the listing and M the number of assistants
\* whose detail retrieval returned the empty result.
C1_ExactlyNMinusM ==
    returned => Cardinality(DOMAIN migration_map) = Len(source) - Cardinality(detailFailed)

\* C1 amended: when migrate_all_assistants returns, the mapping has exactly
\* N - M - K entries, K the number of assistants whose details were retrieved
\* but for which create_azure_assistant returned None.
C1_MappingSize ==
    returned => Cardinality(DOMAIN migration_map) =
                    Len(source) - Cardinality(detailFailed) - Cardinality(createFailed)

C1_Witness ==
    /\ returned
    /\ Len(source) = 2
    /\ Cardinality(detailFailed) = 1
    /\ createFailed = {}
    /\ Cardinality(DOMAIN migration_map) = 1

\* ---------------------------------------------------------------- C2
\* C2: whenever a step of migrating the current assistant has failed (detail
\* fetch or download: get_assistant_details returned {}; an upload returned
\* None; no model resolved or the create call failed: the result is None),
\* the step that ends its processing leaves its id out of the mapping; and
\* when the mapping is returned every listed assistant has been processed.
StepFailedAtReturn ==
    /\ pc = "ret"
    /\ \/ Len(azure_file_ids) < Len(details.file_details)
       \/ ~Truthy(azure_assistant_id)

DetailsFailedStep == pc \in {"retrieve", "download"} /\ pc' = "loop"

C2_FailedAssistantOmitted ==
    [][ /\ (DetailsFailedStep \/ StepFailedAtReturn)
            => assistant \notin DOMAIN migration_map'
        /\ returned' => pos' = Len(source) ]_vars

\* ---------------------------------------------------------------- C3
\* the resolution rule as the claim words it
ExpectedModel(requested, ids) ==
    IF \E i \in DOMAIN ids : ids[i] = requested
    THEN requested
    ELSE IF \E i \in DOMAIN ids : Contains(Gpt4Marker, ids[i])
         THEN LET first == CHOOSE i \in DOMAIN ids :
                              /\ Contains(Gpt4Marker, ids[i])
                              /\ \A j \in DOMAIN ids :
                                    Contains(Gpt4Marker, ids[j]) => i <= j
              IN ids[first]
         ELSE IF Len(ids) > 0 THEN ids[1] ELSE None

\* C3: the model handed to the destination create call is the requested model
\* if it is in the deployment list, else the first deployment containing
\* "gpt-4", else the first deployment; with an empty list no create call is
\* issued and the result is absent.
C3_ModelResolution ==
    /\ pc = "create_call" =>
          /\ deployment_ids # <<>>
          /\ target_model = ExpectedModel(details.model, deployment_ids)
    /\ createCall.issued =>
          /\ deployment_ids # <<>>
          /\ createCall.model = ExpectedModel(details.model, deployment_ids)
    /\ (pc = "ret" /\ deployment_ids = <<>>) =>
          /\ ~createCall.issued
          /\ azure_assistant_id = None

C3_Witness ==
    /\ createCall.issued
    /\ createCall.model # details.model
    /\ Contains(Gpt4Marker, createCall.model)
    /\ Len(deployment_ids) = 2
    /\ deployment_ids[2] = createCall.model

\* ---------------------------------------------------------------- C4
\* C4: for every source assistant id of the listing, at most one create call
\* made for it was answered with a destination id.
C4_AtMostOneCreate ==
    \A s \in 1..Len(source) : Cardinality({p \in issued : p[1] = s}) <= 1

C4_Witness ==
    /\ returned
    /\ Len(source) = 2
    /\ \A s \in 1..2 : Cardinality({p \in issued : p[1] = s}) = 1

\* ---------------------------------------------------------------- C5
\* C5: once both connection checks have passed, the process only ends with
\* status zero and with the mapping returned, also when a listing call failed.
C5_ListingFailureNotFatal ==
    (pc = "exited" /\ openai_ok = "ok" /\ azure_ok = "ok")
        => (exit_code = 0 /\ returned)

\* ---------------------------------------------------------------- C6
\* the three required entries are set to a non-empty value
ConfigComplete ==
    \A k \in {"OPENAI_API_KEY", "AZURE_OPENAI_API_KEY", "AZURE_OPENAI_ENDPOINT"} :
        env[k] \notin {None, EmptyStr}

ConfigAndChecksPass == ConfigComplete /\ openai_ok = "ok" /\ azure_ok = "ok"

\* C6: a migration operation has been performed only if the three entries are
\* present and both checks succeeded; with an entry missing or a check failed
\* the process is at its start or has ended with status 1 and no operation.
C6_NoOperationBeforeChecks ==
    /\ ops => ConfigAndChecksPass
    /\ pc \notin {"main", "init_openai", "init_azure", "exited"} => ConfigAndChecksPass
    /\ ~ConfigComplete => pc \in {"main", "exited"}
    /\ (openai_ok = "failed" \/ azure_ok = "failed") => pc = "exited"
    /\ (pc = "exited" /\ ~ConfigAndChecksPass) => (exit_code = 1 /\ ~ops)

C6_Witness ==
    /\ pc = "exited"
    /\ ConfigComplete
    /\ openai_ok = "ok"
    /\ azure_ok = "failed"
    /\ exit_code = 1
    /\ ~ops

\* ---------------------------------------------------------------- C7
\* C7: when the processing of an assistant other than the first starts,
\* exactly one sleep has happened since the previous assistant's start.
C7_OneDelayBetweenAssistants ==
    [][ (pc = "loop" /\ pc' = "retrieve" /\ pos >= 1) => delays = 1 ]_vars

\* ---------------------------------------------------------------- C8
\* C8: for an assistant retrieved with no attached file, no download and no
\* upload is performed and the create call carries an empty file-id list.
C8_NoFilesNoTransfers ==
    (pc \in {"download", "upload", "create_call", "ret"} /\ asst.file_ids = <<>>) =>
        /\ downloads = <<>>
        /\ ui = 0
        /\ uploads = <<>>
        /\ createCall.issued => createCall.file_ids = <<>>

C8_Witness ==
    /\ pc = "ret"
    /\ asst.file_ids = <<>>
    /\ createCall.issued
    /\ createCall.file_ids = <<>>
    /\ Truthy(azure_assistant_id)

\* ---------------------------------------------------------------- C9
MappingSound == \A s \in DOMAIN migration_map : <<s, migration_map[s]>> \in issued

MappingKept ==
    \A s \in DOMAIN migration_map :
        s \in DOMAIN migration_map' /\ migration_map'[s] = migration_map[s]

\* C9: every entry s -> d of the mapping is an id d that a create call made
\* for s in this run was answered with, and no step removes or changes an entry.
C9_MappingSoundMonotone == []MappingSound /\ [][MappingKept]_vars

C9_Witness ==
    /\ Cardinality(DOMAIN migration_map) = 2
    /\ MappingSound

\* ---------------------------------------------------------------- C10
\* C10: every payload uploaded for the k-th attached file of the current
\* assistant is the payload the source holds for that file id, and nothing is
\* uploaded before every attached file is downloaded.
C10_UploadedIsDownloaded ==
    /\ \A i \in DOMAIN uploads :
          LET k == uploads[i][1]
          IN /\ k \in DOMAIN details.file_details
             /\ uploads[i][2] = Content(details.file_details[k].id)
    /\ uploads # <<>> => Len(downloads) = Len(asst.file_ids)

====
